---- MODULE Spec2Model ----
(***************************************************************************)
(* A model of argsplus::ArgumentParser (src/argsplus.hxx): the registry of *)
(* options and positionals, the stream conversion of ValueBase::ParseValue *)
(* and the token loop of ParseArgs.  Strings are sequences of one-character*)
(* strings, so that prefixes, separators and conversions are computed      *)
(* character by character as the code computes them.                       *)
(***************************************************************************)
EXTENDS Integers, Sequences, FiniteSets, TLC

(***************************************************************************)
(* String primitives (std::basic_string).                                  *)
(***************************************************************************)

\* std::string::npos
Npos == -1

\* s.substr(pos): the characters of s from 0-based position pos to the end.
Substr(s, pos) == SubSeq(s, pos + 1, Len(s))

\* String(s, 0, n): the first n characters of s.
Prefix(s, n) == SubSeq(s, 1, n)

\* pat occurs in s at 0-based position pos.
OccursAt(s, pat, pos) ==
    /\ pos + Len(pat) <= Len(s)
    /\ \A k \in 1..Len(pat) : s[pos + k] = pat[k]

\* s.find(pat): the 0-based position of the first occurrence, or npos.
Find(s, pat) ==
    LET hits == {p \in 0..Len(s) : OccursAt(s, pat, p)}
    IN  IF hits = {} THEN Npos
        ELSE CHOOSE p \in hits : \A q \in hits : p <= q

(***************************************************************************)
(* Stream extraction, ss >> _value, for the value types of the model.      *)
(* A result is [value, fail, rest]: the value left in _value, the stream's *)
(* failbit, and the number of characters left unread (in_avail()).         *)
(***************************************************************************)

\* The characters std::isspace accepts, among those of the model.
Whitespace == {" "}

Digits == {"0", "1", "2", "3", "4", "5", "6", "7", "8", "9"}

DigitVal(c) ==
    CASE c = "0" -> 0 [] c = "1" -> 1 [] c = "2" -> 2 [] c = "3" -> 3
      [] c = "4" -> 4 [] c = "5" -> 5 [] c = "6" -> 6 [] c = "7" -> 7
      [] c = "8" -> 8 [] c = "9" -> 9

\* No token of the model carries more than nine digits in a row: such a
\* number fits an unsigned int and a long, so the overflow result of num_get
\* (the type's maximum, with failbit) is never produced.

\* An unsigned int is 32 bits wide.  It is kept as two 16-bit limbs,
\* <<high, low>>, so that the wrap-around of a negated number is exact.
LimbBits == 16
Limb == 2^LimbBits

UIntOf(n) == <<(n \div Limb) % Limb, n % Limb>>

\* 0 - n in 32-bit unsigned arithmetic.
NegUInt(n) ==
    LET u == UIntOf(n)
        lo == (Limb - u[2]) % Limb
        hi == (Limb - 1 - u[1] + (IF u[2] = 0 THEN 1 ELSE 0)) % Limb
    IN  <<hi, lo>>

\* The sentry of operator>> skips leading whitespace: the 1-based position
\* of the first character that is no whitespace, Len(s) + 1 if there is none.
RECURSIVE SkipWs(_, _)
SkipWs(s, i) ==
    IF i <= Len(s) /\ s[i] \in Whitespace THEN SkipWs(s, i + 1) ELSE i

\* The position after the maximal run of digits of s that starts at i.
RECURSIVE DigitsEnd(_, _)
DigitsEnd(s, i) ==
    IF i <= Len(s) /\ s[i] \in Digits THEN DigitsEnd(s, i + 1) ELSE i

\* The number the digits s[i..j-1] denote in base ten.
RECURSIVE DecValue(_, _, _)
DecValue(s, i, j) ==
    IF j <= i THEN 0 ELSE 10 * DecValue(s, i, j - 1) + DigitVal(s[j - 1])

\* 10^n
RECURSIVE Pow10(_)
Pow10(n) == IF n = 0 THEN 1 ELSE 10 * Pow10(n - 1)

\* A double is kept as the decimal it was read from, <<m, e>> for m * 10^-e,
\* with no trailing zero in the fraction, so equal numbers are equal pairs.
RECURSIVE NormDouble(_, _)
NormDouble(m, e) ==
    IF e > 0 /\ m % 10 = 0 THEN NormDouble(m \div 10, e - 1) ELSE <<m, e>>

\* num_get for unsigned int: an optional sign, then digits.  No digit is a
\* failure that stores zero; a minus sign negates within the 32 bits.
ExtractUInt(s, old) ==
    LET i == SkipWs(s, 1)
        signed == i <= Len(s) /\ s[i] \in {"+", "-"}
        j == IF signed THEN i + 1 ELSE i
        k == DigitsEnd(s, j)
        n == DecValue(s, j, k)
    IN  IF i > Len(s) THEN [value |-> old, fail |-> TRUE, rest |-> 0]
        ELSE IF k = j
             THEN [value |-> UIntOf(0), fail |-> TRUE, rest |-> Len(s) - (k - 1)]
        ELSE [value |-> IF signed /\ s[i] = "-" THEN NegUInt(n) ELSE UIntOf(n),
              fail |-> FALSE, rest |-> Len(s) - (k - 1)]

\* num_get for bool without boolalpha: the field is read as a long; 0 stores
\* false, 1 stores true, anything else stores true and fails; no digit
\* stores false and fails.
ExtractBool(s, old) ==
    LET i == SkipWs(s, 1)
        signed == i <= Len(s) /\ s[i] \in {"+", "-"}
        j == IF signed THEN i + 1 ELSE i
        k == DigitsEnd(s, j)
        n == DecValue(s, j, k)
        l == IF signed /\ s[i] = "-" THEN 0 - n ELSE n
    IN  IF i > Len(s) THEN [value |-> old, fail |-> TRUE, rest |-> 0]
        ELSE IF k = j THEN [value |-> FALSE, fail |-> TRUE, rest |-> Len(s) - (k - 1)]
        ELSE IF l \notin {0, 1}
             THEN [value |-> TRUE, fail |-> TRUE, rest |-> Len(s) - (k - 1)]
        ELSE [value |-> (l = 1), fail |-> FALSE, rest |-> Len(s) - (k - 1)]

\* num_get for double: an optional sign, digits, an optional point and more
\* digits.  (No token of the model carries an exponent.)  A field without a
\* digit is a failure that stores zero.
ExtractDouble(s, old) ==
    LET i == SkipWs(s, 1)
        signed == i <= Len(s) /\ s[i] \in {"+", "-"}
        j == IF signed THEN i + 1 ELSE i
        k == DigitsEnd(s, j)
        point == k <= Len(s) /\ s[k] = "."
        f == IF point THEN k + 1 ELSE k
        g == DigitsEnd(s, f)
        m == DecValue(s, j, k) * Pow10(g - f) + DecValue(s, f, g)
        sm == IF signed /\ s[i] = "-" THEN 0 - m ELSE m
    IN  IF i > Len(s) THEN [value |-> old, fail |-> TRUE, rest |-> 0]
        ELSE IF k = j /\ g = f
             THEN [value |-> <<0, 0>>, fail |-> TRUE, rest |-> Len(s) - (g - 1)]
        ELSE [value |-> NormDouble(sm, g - f), fail |-> FALSE,
              rest |-> Len(s) - (g - 1)]

\* The position after the maximal run of non-whitespace that starts at i.
RECURSIVE WordEnd(_, _)
WordEnd(s, i) ==
    IF i <= Len(s) /\ s[i] \notin Whitespace THEN WordEnd(s, i + 1) ELSE i

\* operator>> for std::string: one whitespace-delimited word.
ExtractString(s, old) ==
    LET i == SkipWs(s, 1)
        k == WordEnd(s, i)
    IN  IF i > Len(s) THEN [value |-> old, fail |-> TRUE, rest |-> 0]
        ELSE [value |-> SubSeq(s, i, k - 1), fail |-> FALSE,
              rest |-> Len(s) - (k - 1)]

\* ss >> _value for a declaration of the given value type.
Extract(type, s, old) ==
    CASE type = "bool" -> ExtractBool(s, old)
      [] type = "double" -> ExtractDouble(s, old)
      [] type = "uint" -> ExtractUInt(s, old)
      [] type = "string" -> ExtractString(s, old)

\* The test for characters left in the buffer forgotten.
ParseValue_IgnoresRest(type, raw, old) ==
    LET r == Extract(type, raw, old)
    IN  [ok |-> ~r.fail, value |-> r.value]

\* ValueBase::ParseValue: false if the stream failed or characters are left.
\* The value is whatever the extraction stored.
ParseValue(type, raw, old) ==
    LET r == Extract(type, raw, old)
    IN  [ok |-> ~(r.rest > 0 \/ r.fail), value |-> r.value]

(***************************************************************************)
(* The parser's configuration, as the constructor sets it.                 *)
(***************************************************************************)

DefaultConfig ==
    [long_prefix |-> <<"-", "-">>,
     short_prefix |-> <<"-">>,
     long_separator |-> <<"=">>,
     option_terminator |-> <<"-", "-">>,
     joined_short |-> TRUE,
     joined_long |-> TRUE,
     separate_short |-> TRUE,
     separate_long |-> TRUE]

(***************************************************************************)
(* The registry.  An option is [name, short, long, type, value, matched],  *)
(* a positional [name, type, value, matched]; both lists are kept in       *)
(* registration order.                                                     *)
(***************************************************************************)

\* Matcher::Match(const Char &)
MatchChar(option, flag) == flag \in option.short

\* Matcher::Match(const String &)
MatchString(option, flag) == flag \in option.long

\* The latest registration wins: the last option whose matcher holds the
\* short flag.
MatchOptionChar_Last(opts, flag) ==
    LET hits == {i \in 1..Len(opts) : MatchChar(opts[i], flag)}
    IN  IF hits = {} THEN 0 ELSE CHOOSE i \in hits : \A j \in hits : i >= j

\* MatchOption<Char>: the index of the first option whose matcher holds the
\* short flag, 0 for nullptr.
MatchOptionChar(opts, flag) ==
    LET hits == {i \in 1..Len(opts) : MatchChar(opts[i], flag)}
    IN  IF hits = {} THEN 0 ELSE CHOOSE i \in hits : \A j \in hits : i <= j

\* MatchOption<String>: the same for a long flag.
MatchOptionString(opts, flag) ==
    LET hits == {i \in 1..Len(opts) : MatchString(opts[i], flag)}
    IN  IF hits = {} THEN 0 ELSE CHOOSE i \in hits : \A j \in hits : i <= j

\* The scan from the wrong end: the last positional not yet matched.
GetNextPositional_Last(poss) ==
    LET free == {i \in 1..Len(poss) : ~poss[i].matched}
    IN  IF free = {} THEN 0 ELSE CHOOSE i \in free : \A j \in free : i >= j

\* No nullptr when all are matched: the last positional is handed out again.
GetNextPositional_Reuses(poss) ==
    LET free == {i \in 1..Len(poss) : ~poss[i].matched}
    IN  IF free = {} THEN Len(poss) ELSE CHOOSE i \in free : \A j \in free : i <= j

\* GetNextPositional: the index of the first positional not yet matched,
\* 0 for nullptr.
GetNextPositional(poss) ==
    LET free == {i \in 1..Len(poss) : ~poss[i].matched}
    IN  IF free = {} THEN 0 ELSE CHOOSE i \in free : \A j \in free : i <= j

\* The value types an option or positional is instantiated with.
ValueTypes == {"bool", "double", "uint", "string"}

\* dynamic_cast<ValueRoot *>(option): every Option<Type> derives from
\* ValueBase<Option<Type>, Type>, whatever Type is, so the cast succeeds.
IsValueRoot(option) == option.type \in ValueTypes

(***************************************************************************)
(* One iteration of the loop of ParseArgs.  Each path yields a result      *)
(* [options, positionals, ok, err, took, hits, slot]: the registry after   *)
(* the token, whether the loop goes on, the message assigned to _error if  *)
(* it does not, whether ++it took the following token as a separate value, *)
(* and which options and which positional the token was resolved to.       *)
(***************************************************************************)

Continue(opts, poss, took, hits, slot) ==
    [options |-> opts, positionals |-> poss, ok |-> TRUE, err |-> <<>>,
     took |-> took, hits |-> hits, slot |-> slot]

Fail(opts, poss, took, hits, slot, msg) ==
    [options |-> opts, positionals |-> poss, ok |-> FALSE, err |-> msg,
     took |-> took, hits |-> hits, slot |-> slot]

\* Every declaration marked, not only the one resolved.
SetMatched_All(decls, i) == [k \in 1..Len(decls) |-> [decls[k] EXCEPT !.matched = TRUE]]

\* root->SetMatched(true)
SetMatched(decls, i) == [decls EXCEPT ![i].matched = TRUE]

\* ss >> _value writes the value of the declaration ParseValue is called on.
SetValue(decls, i, v) == [decls EXCEPT ![i].value = v]

\* The end of the input forgotten: the flag passes without a value.
MissingArgument_Ignored(opts, poss, arg, hits) ==
    Continue(opts, poss, FALSE, hits, 0)

\* ++it; if (it == end): the flag has no value to take.
MissingArgument(opts, poss, arg, hits) ==
    Fail(opts, poss, FALSE, hits, 0,
         <<"Flag '", arg, "' requires an argument but received none">>)

\* The switches tested after the conversion: a value in a disallowed syntax
\* is stored before it is refused.
FlagValue_ConvertsFirst(opts, poss, o, arg, has, joined, next, allowJoined, allowSeparate, hits) ==
    IF has
    THEN LET p == ParseValue(opts[o].type, joined, opts[o].value)
             stored == SetValue(opts, o, p.value)
         IN  IF ~allowJoined
             THEN Fail(stored, poss, FALSE, hits, 0,
                       <<"Flag '", arg,
                         "' was passed a joined argument, but these are disallowed">>)
             ELSE IF ~p.ok
                  THEN Fail(stored, poss, FALSE, hits, 0,
                            <<"Flag '", arg, "' received an invalid value">>)
                  ELSE Continue(stored, poss, FALSE, hits, 0)
    ELSE IF next = <<>>
         THEN MissingArgument(opts, poss, arg, hits)
         ELSE LET p == ParseValue(opts[o].type, next[1], opts[o].value)
                  stored == SetValue(opts, o, p.value)
              IN  IF ~allowSeparate
                  THEN Fail(stored, poss, TRUE, hits, 0,
                            <<"Flag '", arg,
                              "' was passed a separate argument, but these are disallowed">>)
                  ELSE IF ~p.ok
                       THEN Fail(stored, poss, TRUE, hits, 0,
                                 <<"Flag '", arg, "' received an invalid value">>)
                       ELSE Continue(stored, poss, TRUE, hits, 0)

\* A value-bearing flag, resolved to option o and already marked, obtains
\* its value: joined (has) or from the following token, next being <<>> at
\* the end of the input and <<token>> otherwise.  arg is the flag as the
\* messages name it.
FlagValue(opts, poss, o, arg, has, joined, next, allowJoined, allowSeparate, hits) ==
    IF has
    THEN IF allowJoined
         THEN LET p == ParseValue(opts[o].type, joined, opts[o].value)
                  stored == SetValue(opts, o, p.value)
              IN  IF ~p.ok
                  THEN Fail(stored, poss, FALSE, hits, 0,
                            <<"Flag '", arg, "' received an invalid value">>)
                  ELSE Continue(stored, poss, FALSE, hits, 0)
         ELSE Fail(opts, poss, FALSE, hits, 0,
                   <<"Flag '", arg,
                     "' was passed a joined argument, but these are disallowed">>)
    ELSE IF next = <<>>
         THEN MissingArgument(opts, poss, arg, hits)
         ELSE IF allowSeparate
              THEN LET p == ParseValue(opts[o].type, next[1], opts[o].value)
                       stored == SetValue(opts, o, p.value)
                   IN  IF ~p.ok
                       THEN Fail(stored, poss, TRUE, hits, 0,
                                 <<"Flag '", arg, "' received an invalid value">>)
                       ELSE Continue(stored, poss, TRUE, hits, 0)
              ELSE Fail(opts, poss, TRUE, hits, 0,
                        <<"Flag '", arg,
                          "' was passed a separate argument, but these are disallowed">>)

\* The joined value cut one character early, the separator still on it.
JoinedValue_KeepsSeparator(argchunk, separator, sep) == Substr(argchunk, separator)

\* argchunk.substr(separator + _long_separator.size()): the joined value.
JoinedValue(argchunk, separator, sep) == Substr(argchunk, separator + Len(sep))

\* The option marked only once its value was stored.
LongFlag_MarksLate(cfg, opts, poss, chunk, next) ==
    LET argchunk == Substr(chunk, Len(cfg.long_prefix))
        separator == IF cfg.long_separator = <<>> THEN Npos
                     ELSE Find(argchunk, cfg.long_separator)
        arg == IF separator # Npos THEN Prefix(argchunk, separator) ELSE argchunk
        o == MatchOptionString(opts, arg)
        r == FlagValue(opts, poss, o, arg, separator # Npos,
                       JoinedValue(argchunk, separator, cfg.long_separator),
                       next, cfg.joined_long, cfg.separate_long, <<o>>)
    IN  IF o = 0
        THEN Fail(opts, poss, FALSE, <<>>, 0, <<"Flag could not be matched: ", arg>>)
        ELSE IF r.ok THEN [r EXCEPT !.options = SetMatched(r.options, o)] ELSE r

\* The long-flag branch: the option is marked as soon as the flag is
\* resolved, then its value is obtained.
LongFlag(cfg, opts, poss, chunk, next) ==
    LET argchunk == Substr(chunk, Len(cfg.long_prefix))
        separator == IF cfg.long_separator = <<>> THEN Npos
                     ELSE Find(argchunk, cfg.long_separator)
        arg == IF separator # Npos THEN Prefix(argchunk, separator) ELSE argchunk
        o == MatchOptionString(opts, arg)
        marked == SetMatched(opts, o)
    IN  IF o = 0
        THEN Fail(opts, poss, FALSE, <<>>, 0, <<"Flag could not be matched: ", arg>>)
        ELSE IF IsValueRoot(opts[o])
             THEN FlagValue(marked, poss, o, arg, separator # Npos,
                            JoinedValue(argchunk, separator, cfg.long_separator),
                            next, cfg.joined_long, cfg.separate_long, <<o>>)
             ELSE IF separator # Npos
                  THEN Fail(marked, poss, FALSE, <<o>>, 0,
                            <<"Passed an argument into a non-argument flag: ", chunk>>)
                  ELSE Continue(marked, poss, FALSE, <<o>>, 0)

\* The loop over the characters of a short-flag cluster, argit at the
\* 1-based position i of argchunk.
RECURSIVE ShortLoop(_, _, _, _, _, _, _)
ShortLoop(cfg, opts, poss, argchunk, i, next, hits) ==
    IF i > Len(argchunk) THEN Continue(opts, poss, FALSE, hits, 0)
    ELSE LET arg == argchunk[i]
             o == MatchOptionChar(opts, arg)
             marked == SetMatched(opts, o)
             value == SubSeq(argchunk, i + 1, Len(argchunk))
         IN  IF o = 0
             THEN Fail(opts, poss, FALSE, hits, 0,
                       <<"Flag could not be matched: ", <<arg>> >>)
             ELSE IF IsValueRoot(opts[o])
                  THEN FlagValue(marked, poss, o, <<arg>>, value # <<>>, value,
                                 next, cfg.joined_short, cfg.separate_short,
                                 Append(hits, o))
                  ELSE ShortLoop(cfg, marked, poss, argchunk, i + 1, next,
                                 Append(hits, o))

\* The short-flag branch.
ShortFlags(cfg, opts, poss, chunk, next) ==
    ShortLoop(cfg, opts, poss, Substr(chunk, Len(cfg.short_prefix)), 1, next, <<>>)

\* A rejected conversion rolled back: the positional keeps the value it had.
PositionalArg_RollsBack(opts, poss, chunk) ==
    LET pos == GetNextPositional(poss)
        p == ParseValue(poss[pos].type, chunk, poss[pos].value)
        stored == SetValue(poss, pos, p.value)
    IN  IF pos = 0
        THEN Fail(opts, poss, FALSE, <<>>, 0,
                  <<"Passed in argument, but no positional arguments were ready to receive it: ",
                    chunk>>)
        ELSE IF ~p.ok
             THEN Fail(opts, poss, FALSE, <<>>, pos,
                       <<"Positional '", poss[pos].name, "' received an invalid value">>)
             ELSE Continue(opts, SetMatched(stored, pos), FALSE, <<>>, pos)

\* The positional branch.
PositionalArg(opts, poss, chunk) ==
    LET pos == GetNextPositional(poss)
        p == ParseValue(poss[pos].type, chunk, poss[pos].value)
        stored == SetValue(poss, pos, p.value)
    IN  IF pos = 0
        THEN Fail(opts, poss, FALSE, <<>>, 0,
                  <<"Passed in argument, but no positional arguments were ready to receive it: ",
                    chunk>>)
        ELSE IF ~p.ok
             THEN Fail(opts, stored, FALSE, <<>>, pos,
                       <<"Positional '", poss[pos].name, "' received an invalid value">>)
             ELSE Continue(opts, SetMatched(stored, pos), FALSE, <<>>, pos)

\* The size test left out: the bare prefix counts as a flag token.
HasPrefix_AnyLength(chunk, prefix) == Find(chunk, prefix) = 0

\* chunk.find(prefix) == 0 && chunk.size() > prefix.size()
HasPrefix(chunk, prefix) == Find(chunk, prefix) = 0 /\ Len(chunk) > Len(prefix)

\* The short-flag test left out: a token with the short prefix falls through
\* to the positional branch.
Classify_NoShort(cfg, term, chunk) ==
    IF ~term /\ chunk = cfg.option_terminator THEN "terminator"
    ELSE IF ~term /\ HasPrefix(chunk, cfg.long_prefix) THEN "long"
    ELSE "positional"

\* The !terminated tests left out: flags are still recognised after the
\* terminator.
Classify_IgnoresTerminated(cfg, term, chunk) ==
    IF chunk = cfg.option_terminator THEN "terminator"
    ELSE IF HasPrefix(chunk, cfg.long_prefix) THEN "long"
    ELSE IF HasPrefix(chunk, cfg.short_prefix) THEN "short"
    ELSE "positional"

\* The branch of the loop a token takes.
Classify(cfg, term, chunk) ==
    IF ~term /\ chunk = cfg.option_terminator THEN "terminator"
    ELSE IF ~term /\ HasPrefix(chunk, cfg.long_prefix) THEN "long"
    ELSE IF ~term /\ HasPrefix(chunk, cfg.short_prefix) THEN "short"
    ELSE "positional"

(***************************************************************************)
(* The bounded universe: the declarations a program registers and the      *)
(* tokens an argument list is made of.                                     *)
(***************************************************************************)

MaxOptions == 2
MaxPositionals == 2
MaxArgs == 3

Str_double == <<"d", "o", "u", "b", "l", "e">>
Str_bool == <<"b", "o", "o", "l">>
Str_s_eq_t == <<"s", "=", "t">>

\* AddOption<bool>("BOOL", {'b', "bool"}), AddOption<double>("DUBFLAG",
\* {'d', "double"}) with Default(25.0), and a string option that shares
\* 'd' and "double" with DUBFLAG and has a long flag holding the separator.
OptionDecls ==
    { [name |-> "BOOL", short |-> {"b"}, long |-> {Str_bool},
       type |-> "bool", default |-> FALSE],
      [name |-> "DUBFLAG", short |-> {"d"}, long |-> {Str_double},
       type |-> "double", default |-> <<25, 0>>],
      [name |-> "STR", short |-> {"s", "d"}, long |-> {Str_s_eq_t, Str_double},
       type |-> "string", default |-> <<>>] }

\* AddPositional<unsigned int>("MyPos") with Default(17), and a string
\* positional.
PositionalDecls ==
    { [name |-> "MyPos", type |-> "uint", default |-> UIntOf(17)],
      [name |-> "Text", type |-> "string", default |-> <<>>] }

Tokens ==
    { <<"-", "-">>,
      <<"-", "b">>,
      <<"-", "-", "d", "o", "u", "b", "l", "e", "=", "3", ".", "5">>,
      <<"-", "-", "d", "o", "u", "b", "l", "e">>,
      <<"4", "2">>,
      <<"-", "4", "2">>,
      <<"-", "s">>,
      <<"-", "s", "b">>,
      <<"-", "b", "s", "4">>,
      <<"-", "-", "s", "=", "t", "=", "4", "2">>,
      <<"1">> }

(***************************************************************************)
(* The state: the parser's members, and the position of a ParseArgs call.  *)
(***************************************************************************)

VARIABLES
    config,        \* the prefixes, separator, terminator and the four switches
    options,       \* _options
    positionals,   \* _positionals
    error,         \* _error, <<>> for the empty string
    pc,            \* "setup": no call yet; "loop": in ParseArgs; "done": returned
    terminated,    \* the local of ParseArgs
    args,          \* the tokens the call has read so far, *begin .. *it
    ret,           \* the call's return value, once pc = "done"
    log,           \* history: for each token of args, the branch it took
    pre,           \* history: the registry and _error when the call began
    prev           \* history: the same before the latest iteration of the loop

vars == <<config, options, positionals, error, pc, terminated, args, ret, log,
          pre, prev>>

Init ==
    /\ config = DefaultConfig
    /\ options = <<>>
    /\ positionals = <<>>
    /\ error = <<>>
    /\ pc = "setup"
    /\ terminated = FALSE
    /\ args = <<>>
    /\ ret = TRUE
    /\ log = <<>>
    /\ pre = [options |-> <<>>, positionals |-> <<>>, error |-> <<>>]
    /\ prev = [options |-> <<>>, positionals |-> <<>>, error |-> <<>>]

\* AddOption<Value>(name, matcher), with the Default(v) the program chains
\* to it (test.cxx:11-14).  A program registers each of its declarations once.
AddOption(d) ==
    /\ pc = "setup"
    /\ Len(options) < MaxOptions
    /\ \A i \in 1..Len(options) : options[i].name # d.name
    /\ options' = Append(options,
                         [name |-> d.name, short |-> d.short, long |-> d.long,
                          type |-> d.type, value |-> d.default, matched |-> FALSE])
    /\ UNCHANGED <<config, positionals, error, pc, terminated, args, ret, log,
                   pre, prev>>

\* AddPositional<Value>(name), with its Default(v).
AddPositional(d) ==
    /\ pc = "setup"
    /\ Len(positionals) < MaxPositionals
    /\ \A i \in 1..Len(positionals) : positionals[i].name # d.name
    /\ positionals' = Append(positionals,
                             [name |-> d.name, type |-> d.type,
                              value |-> d.default, matched |-> FALSE])
    /\ UNCHANGED <<config, options, error, pc, terminated, args, ret, log,
                   pre, prev>>

\* ParseArgs is entered: terminated = false, it = begin.
ParseArgs ==
    /\ pc = "setup"
    /\ pc' = "loop"
    /\ terminated' = FALSE
    /\ args' = <<>>
    /\ log' = <<>>
    /\ pre' = [options |-> options, positionals |-> positionals, error |-> error]
    /\ prev' = pre'
    /\ UNCHANGED <<config, options, positionals, error, ret>>

\* The tokens that may follow the one at it: <<>> when it is the last one.
Following ==
    {<<>>} \cup (IF Len(args) + 1 < MaxArgs THEN {<<t>> : t \in Tokens} ELSE {})

\* The iterator not moved: the next iteration reads the same token again.
Advance_Stuck(chunk, next, branch, r) ==
    /\ options' = r.options
    /\ positionals' = r.positionals
    /\ error' = IF r.ok THEN error ELSE r.err
    /\ pc' = IF r.ok THEN "loop" ELSE "done"
    /\ ret' = IF r.ok THEN ret ELSE FALSE
    /\ prev' = [options |-> options, positionals |-> positionals, error |-> error]
    /\ args' = IF r.ok THEN args ELSE Append(args, chunk)
    /\ log' = IF r.ok THEN log
              ELSE Append(log, [branch |-> branch, hits |-> r.hits, slot |-> r.slot,
                                ok |-> r.ok, term |-> terminated])

\* The value read without moving the iterator: the loop's ++it then lands on
\* the value token and classifies it.
Advance_ValueNotSkipped(chunk, next, branch, r) ==
    /\ options' = r.options
    /\ positionals' = r.positionals
    /\ error' = IF r.ok THEN error ELSE r.err
    /\ pc' = IF r.ok THEN "loop" ELSE "done"
    /\ ret' = IF r.ok THEN ret ELSE FALSE
    /\ prev' = [options |-> options, positionals |-> positionals, error |-> error]
    /\ args' = Append(args, chunk)
    /\ log' = Append(log, [branch |-> branch, hits |-> r.hits, slot |-> r.slot,
                           ok |-> r.ok, term |-> terminated])

\* The return after a failure left out: the loop goes on to the next token.
Advance_KeepsGoing(chunk, next, branch, r) ==
    /\ options' = r.options
    /\ positionals' = r.positionals
    /\ error' = IF r.ok THEN error ELSE r.err
    /\ pc' = "loop"
    /\ ret' = IF r.ok THEN ret ELSE FALSE
    /\ prev' = [options |-> options, positionals |-> positionals, error |-> error]
    /\ args' = IF r.took THEN args \o <<chunk, next[1]>> ELSE Append(args, chunk)
    /\ log' = LET entry == [branch |-> branch, hits |-> r.hits, slot |-> r.slot,
                            ok |-> r.ok, term |-> terminated]
              IN  IF r.took
                  THEN log \o <<entry, [entry EXCEPT !.branch = "value"]>>
                  ELSE Append(log, entry)

\* The loop's bookkeeping after a branch produced r for chunk: a failure
\* assigns _error and returns false, otherwise the loop goes on behind the
\* tokens the branch consumed.
Advance(chunk, next, branch, r) ==
    /\ options' = r.options
    /\ positionals' = r.positionals
    /\ error' = IF r.ok THEN error ELSE r.err
    /\ pc' = IF r.ok THEN "loop" ELSE "done"
    /\ ret' = IF r.ok THEN ret ELSE FALSE
    /\ prev' = [options |-> options, positionals |-> positionals, error |-> error]
    /\ args' = IF r.took THEN args \o <<chunk, next[1]>> ELSE Append(args, chunk)
    /\ log' = LET entry == [branch |-> branch, hits |-> r.hits, slot |-> r.slot,
                            ok |-> r.ok, term |-> terminated]
              IN  IF r.took
                  THEN log \o <<entry, [entry EXCEPT !.branch = "value"]>>
                  ELSE Append(log, entry)

\* The terminator consumed, but terminated left false.
Terminator_StaysScanning(chunk) ==
    /\ pc = "loop"
    /\ Len(args) < MaxArgs
    /\ Classify(config, terminated, chunk) = "terminator"
    /\ terminated' = FALSE
    /\ Advance(chunk, <<>>, "terminator",
               Continue(options, positionals, FALSE, <<>>, 0))
    /\ UNCHANGED <<config, pre>>

\* it != end and *it is the terminator, met while scanning.
Terminator(chunk) ==
    /\ pc = "loop"
    /\ Len(args) < MaxArgs
    /\ Classify(config, terminated, chunk) = "terminator"
    /\ terminated' = TRUE
    /\ Advance(chunk, <<>>, "terminator",
               Continue(options, positionals, FALSE, <<>>, 0))
    /\ UNCHANGED <<config, pre>>

\* it != end and *it is a long flag.
LongArg(chunk, next) ==
    /\ pc = "loop"
    /\ Len(args) < MaxArgs
    /\ Classify(config, terminated, chunk) = "long"
    /\ Advance(chunk, next, "long",
               LongFlag(config, options, positionals, chunk, next))
    /\ UNCHANGED <<config, terminated, pre>>

\* it != end and *it is a short-flag cluster.
ShortArg(chunk, next) ==
    /\ pc = "loop"
    /\ Len(args) < MaxArgs
    /\ Classify(config, terminated, chunk) = "short"
    /\ Advance(chunk, next, "short",
               ShortFlags(config, options, positionals, chunk, next))
    /\ UNCHANGED <<config, terminated, pre>>

\* it != end and *it goes to the next positional.
Positional(chunk) ==
    /\ pc = "loop"
    /\ Len(args) < MaxArgs
    /\ Classify(config, terminated, chunk) = "positional"
    /\ Advance(chunk, <<>>, "positional",
               PositionalArg(options, positionals, chunk))
    /\ UNCHANGED <<config, terminated, pre>>

\* A successful return that clears the message of an earlier failure.
ReturnTrue_ClearsError ==
    /\ pc = "loop"
    /\ pc' = "done"
    /\ ret' = TRUE
    /\ error' = <<>>
    /\ UNCHANGED <<config, options, positionals, terminated, args, log,
                   pre, prev>>

\* it == end: return true.
ReturnTrue ==
    /\ pc = "loop"
    /\ pc' = "done"
    /\ ret' = TRUE
    /\ UNCHANGED <<config, options, positionals, error, terminated, args, log,
                   pre, prev>>

Next ==
    \/ \E d \in OptionDecls : AddOption(d)
    \/ \E d \in PositionalDecls : AddPositional(d)
    \/ ParseArgs
    \/ \E chunk \in Tokens : Terminator(chunk)
    \/ \E chunk \in Tokens : \E next \in Following : LongArg(chunk, next)
    \/ \E chunk \in Tokens : \E next \in Following : ShortArg(chunk, next)
    \/ \E chunk \in Tokens : Positional(chunk)
    \/ ReturnTrue

Spec == Init /\ [][Next]_vars

(***************************************************************************)
(* A program that calls ParseArgs again on the same parser.  Nothing in    *)
(* ParseArgs clears what an earlier call left in the declarations or in    *)
(* _error; its only locals are terminated and the iterator.                *)
(***************************************************************************)

\* A later call that began by clearing every matched flag.
ParseArgsAgain_Resets ==
    /\ pc = "done"
    /\ pc' = "loop"
    /\ terminated' = FALSE
    /\ args' = <<>>
    /\ log' = <<>>
    /\ ret' = TRUE
    /\ options' = [o \in 1..Len(options) |-> [options[o] EXCEPT !.matched = FALSE]]
    /\ positionals' = [q \in 1..Len(positionals) |->
                            [positionals[q] EXCEPT !.matched = FALSE]]
    /\ pre' = [options |-> options', positionals |-> positionals', error |-> error]
    /\ prev' = pre'
    /\ UNCHANGED <<config, error>>

\* ParseArgs is entered after an earlier call returned: terminated = false,
\* it = begin, the members as the earlier call left them.
ParseArgsAgain ==
    /\ pc = "done"
    /\ pc' = "loop"
    /\ terminated' = FALSE
    /\ args' = <<>>
    /\ log' = <<>>
    /\ ret' = TRUE
    /\ pre' = [options |-> options, positionals |-> positionals, error |-> error]
    /\ prev' = pre'
    /\ UNCHANGED <<config, options, positionals, error>>

\* The declarations and tokens of the programs that parse repeatedly: the
\* two declarations of test.cxx, a second positional, and tokens for each
\* branch of the loop.
CallOptionDecls == {d \in OptionDecls : d.name = "DUBFLAG"}

CallTokens ==
    { <<"-", "-">>,
      <<"-", "-", "d", "o", "u", "b", "l", "e", "=", "3", ".", "5">>,
      <<"-", "d">>,
      <<"4", "2">>,
      <<"1">> }

\* The tokens of the set toks that may follow the one at it.
FollowingIn(toks) ==
    {<<>>} \cup (IF Len(args) + 1 < MaxArgs THEN {<<t>> : t \in toks} ELSE {})

NextCalls ==
    \/ \E d \in CallOptionDecls : AddOption(d)
    \/ \E d \in PositionalDecls : AddPositional(d)
    \/ ParseArgs
    \/ ParseArgsAgain
    \/ \E chunk \in CallTokens : Terminator(chunk)
    \/ \E chunk \in CallTokens : \E next \in FollowingIn(CallTokens) :
           LongArg(chunk, next)
    \/ \E chunk \in CallTokens : \E next \in FollowingIn(CallTokens) :
           ShortArg(chunk, next)
    \/ \E chunk \in CallTokens : Positional(chunk)
    \/ ReturnTrue

SpecCalls == Init /\ [][NextCalls]_vars

(***************************************************************************)
(* A program that overrides the value-attachment switches before it       *)
(* parses.  ParseArgs reads _joined_short, _joined_long, _separate_short   *)
(* and _separate_long; the header initialises them in the constructor, the *)
(* operation that overrides them is the one the specification describes    *)
(* as its configuration surface.                                           *)
(***************************************************************************)

\* The configuration surface, set before parsing: the four switches.
Configure(js, jl, ss, sl) ==
    /\ pc = "setup"
    /\ config' = [config EXCEPT !.joined_short = js, !.joined_long = jl,
                                !.separate_short = ss, !.separate_long = sl]
    /\ UNCHANGED <<options, positionals, error, pc, terminated, args, ret, log,
                   pre, prev>>

\* The declarations of test.cxx and tokens that hand DUBFLAG a value in each
\* of the four syntaxes.
ConfigPositionalDecls == {d \in PositionalDecls : d.name = "MyPos"}

ConfigTokens ==
    { <<"-", "-">>,
      <<"-", "-", "d", "o", "u", "b", "l", "e", "=", "3", ".", "5">>,
      <<"-", "-", "d", "o", "u", "b", "l", "e">>,
      <<"-", "d">>,
      <<"-", "d", "1">>,
      <<"4", "2">> }

NextConfig ==
    \/ \E js, jl, ss, sl \in BOOLEAN : Configure(js, jl, ss, sl)
    \/ \E d \in CallOptionDecls : AddOption(d)
    \/ \E d \in ConfigPositionalDecls : AddPositional(d)
    \/ ParseArgs
    \/ \E chunk \in ConfigTokens : Terminator(chunk)
    \/ \E chunk \in ConfigTokens : \E next \in FollowingIn(ConfigTokens) :
           LongArg(chunk, next)
    \/ \E chunk \in ConfigTokens : \E next \in FollowingIn(ConfigTokens) :
           ShortArg(chunk, next)
    \/ \E chunk \in ConfigTokens : Positional(chunk)
    \/ ReturnTrue

SpecConfig == Init /\ [][NextConfig]_vars

(***************************************************************************)
(* Programs whose argument lists carry values that do not convert          *)
(* cleanly: a trailing letter, a trailing or leading blank, nothing at     *)
(* all, or only the short prefix.                                          *)
(***************************************************************************)

\* DUBFLAG, and the string option that shares 'd' and "double" with it.
ValueOptionDecls == {d \in OptionDecls : d.name \in {"DUBFLAG", "STR"}}

ValueTokens ==
    { <<"-", "-">>,
      <<"-">>,
      <<"-", "-", "d", "o", "u", "b", "l", "e", "=">>,
      <<"-", "-", "d", "o", "u", "b", "l", "e", "=", "3", ".", "5">>,
      <<"-", "d">>,
      <<"-", "d", "1", "a">>,
      <<"4", "2">>,
      <<"4", "2", "a">>,
      <<"4", "2", " ">>,
      <<" ", "1">>,
      <<>> }

NextValues ==
    \/ \E d \in ValueOptionDecls : AddOption(d)
    \/ \E d \in PositionalDecls : AddPositional(d)
    \/ ParseArgs
    \/ \E chunk \in ValueTokens : Terminator(chunk)
    \/ \E chunk \in ValueTokens : \E next \in FollowingIn(ValueTokens) :
           LongArg(chunk, next)
    \/ \E chunk \in ValueTokens : \E next \in FollowingIn(ValueTokens) :
           ShortArg(chunk, next)
    \/ \E chunk \in ValueTokens : Positional(chunk)
    \/ ReturnTrue

SpecValues == Init /\ [][NextValues]_vars

(***************************************************************************)
(* Properties.  They speak of the token the loop handled last, through the *)
(* histories args, log and prev.                                           *)
(***************************************************************************)

NArgs == Len(args)

\* The latest iteration took the following token as a separate value.
Took == NArgs > 0 /\ log[NArgs].branch = "value"

\* The position in args of the token the latest iteration classified.
Cur == IF Took THEN NArgs - 1 ELSE NArgs

IsPrefixOf(p, t) == Len(p) <= Len(t) /\ SubSeq(t, 1, Len(p)) = p

\* The first-registered option of opts that has the long flag name.
FirstLong(opts, name) ==
    CHOOSE i \in 1..Len(opts) :
        /\ name \in opts[i].long
        /\ \A j \in 1..(i - 1) : name \notin opts[j].long

\* The first-registered option of opts that has the short flag c.
FirstShort(opts, c) ==
    CHOOSE i \in 1..Len(opts) :
        /\ c \in opts[i].short
        /\ \A j \in 1..(i - 1) : c \notin opts[j].short

LongNames(opts) == UNION {opts[i].long : i \in 1..Len(opts)}

ShortChars(opts) == UNION {opts[i].short : i \in 1..Len(opts)}

\* The latest token reads <longPrefix> name <sep> value with a value that
\* converts for the first option registered with name: then the token did
\* not fail, that option holds the converted value and is matched, and the
\* following token was not taken.
JoinedLongHolds(name) ==
    LET head == config.long_prefix \o name \o config.long_separator
        value == SubSeq(args[Cur], Len(head) + 1, Len(args[Cur]))
        o == FirstLong(prev.options, name)
        p == ParseValue(prev.options[o].type, value, prev.options[o].value)
    IN  (IsPrefixOf(head, args[Cur]) /\ p.ok)
            => /\ log[Cur].ok
               /\ options[o].value = p.value
               /\ options[o].matched
               /\ ~Took

\* C1 as stated: with the default configuration, every token
\* <longPrefix><name><sep><value> classified while scanning, name a long flag
\* of a registered option and value convertible, is accepted, stores the
\* converted value in the first-registered option with that name, marks it
\* matched and takes no following token.
C1_JoinedLongAnyName ==
    (NArgs > 0 /\ config = DefaultConfig /\ ~log[Cur].term)
        => \A name \in LongNames(prev.options) : JoinedLongHolds(name)

\* C1 amended: the same for every name that does not contain the separator
\* (the code splits the token at the first occurrence of the separator).
C1_JoinedLong ==
    (NArgs > 0 /\ config = DefaultConfig /\ ~log[Cur].term)
        => \A name \in LongNames(prev.options) :
               Find(name, config.long_separator) = Npos => JoinedLongHolds(name)

\* C1 witness: --double=3.5 was accepted and DUBFLAG holds 3.5.
C1_Witness ==
    /\ NArgs > 0
    /\ ~log[Cur].term
    /\ args[Cur] = config.long_prefix \o Str_double \o config.long_separator
                       \o <<"3", ".", "5">>
    /\ log[Cur].ok
    /\ \E o \in 1..Len(options) :
           /\ o = FirstLong(prev.options, Str_double)
           /\ options[o].type = "double"
           /\ prev.options[o].value = <<25, 0>>
           /\ options[o].value = <<35, 1>>
           /\ options[o].matched

\* C2: with the default configuration a bool option given as a bare flag,
\* with no joined value and no following token, is accepted and marked
\* matched: the call returns true (["-b"] with {'b', "bool"} declared).
C2_BareBoolFlag ==
    (/\ pc = "done"
     /\ config = DefaultConfig
     /\ NArgs > 0 /\ ~Took
     /\ ~log[Cur].term
     /\ args[Cur] = <<"-", "b">>
     /\ "b" \in ShortChars(prev.options)
     /\ prev.options[FirstShort(prev.options, "b")].type = "bool")
        => /\ ret = TRUE
           /\ options[FirstShort(prev.options, "b")].matched

\* The latest token carries a flag that the loop resolved and that has no
\* value attached: a long flag without separator, or a short flag that is
\* the last character of its cluster.
BareFlagLast ==
    /\ NArgs > 0 /\ ~Took
    /\ log[Cur].branch \in {"long", "short"}
    /\ log[Cur].hits # <<>>
    /\ IsValueRoot(prev.options[log[Cur].hits[Len(log[Cur].hits)]])
    /\ \/ /\ log[Cur].branch = "long"
          /\ Find(Substr(args[Cur], Len(config.long_prefix)),
                  config.long_separator) = Npos
       \/ /\ log[Cur].branch = "short"
          /\ Len(log[Cur].hits) = Len(args[Cur]) - Len(config.short_prefix)

\* The flag of the latest token as the messages name it.
FlagName ==
    IF log[Cur].branch = "long"
    THEN LET argchunk == Substr(args[Cur], Len(config.long_prefix))
             separator == Find(argchunk, config.long_separator)
         IN  IF separator = Npos THEN argchunk ELSE Prefix(argchunk, separator)
    ELSE <<args[Cur][Len(config.short_prefix) + Len(log[Cur].hits)]>>

\* C3: a value-bearing flag without attached value, resolved on the last
\* token of the input, makes ParseArgs return false with the error
\* "requires an argument but received none" naming the flag, and leaves the
\* option's stored value unchanged.
C3_MissingValue ==
    BareFlagLast
        => LET o == log[Cur].hits[Len(log[Cur].hits)]
           IN  /\ pc = "done"
               /\ ret = FALSE
               /\ error = <<"Flag '", FlagName,
                            "' requires an argument but received none">>
               /\ options[o].value = prev.options[o].value

\* C3 witness: --double, and -d, as the only token.
C3_Witness ==
    /\ BareFlagLast
    /\ args = <<config.long_prefix \o Str_double>>
    /\ error = <<"Flag '", Str_double, "' requires an argument but received none">>
    /\ ret = FALSE

\* Token k of args was classified by the loop while it was scanning.
Scanned(k) == ~log[k].term /\ log[k].branch # "value"

LongForm(t) ==
    IsPrefixOf(config.long_prefix, t) /\ Len(t) > Len(config.long_prefix)

ShortForm(t) ==
    IsPrefixOf(config.short_prefix, t) /\ Len(t) > Len(config.short_prefix)

\* The name of a long-form token: what follows the prefix, up to the first
\* separator.
LongNameOf(t) ==
    LET argchunk == Substr(t, Len(config.long_prefix))
        separator == Find(argchunk, config.long_separator)
    IN  IF separator = Npos THEN argchunk ELSE Prefix(argchunk, separator)

\* The first position of cluster whose character is in the set chars, 0 if
\* there is none.
FirstIn(cluster, chars) ==
    LET at == {i \in 1..Len(cluster) : cluster[i] \in chars}
    IN  IF at = {} THEN 0 ELSE CHOOSE i \in at : \A j \in at : i <= j

\* The short flags of the value-bearing options of opts.
ValueChars(opts) ==
    UNION {opts[i].short : i \in {j \in 1..Len(opts) : IsValueRoot(opts[j])}}

AllChars == UNION {{t[i] : i \in 1..Len(t)} : t \in Tokens}

UnmatchedFlagError(flag) ==
    /\ pc = "done"
    /\ ret = FALSE
    /\ error = <<"Flag could not be matched: ", flag>>

\* C4: while scanning, a token that begins with the long or short prefix
\* and is longer than it is never handed to a positional; if its long name,
\* or a cluster character reached before any value-bearing flag, matches no
\* registered option, ParseArgs returns false with the unmatched-flag error,
\* even when an unmatched positional could take the token.
C4_PrefixedNeverPositional ==
    /\ \A k \in 1..NArgs :
           (Scanned(k) /\ (LongForm(args[k]) \/ ShortForm(args[k])))
               => log[k].branch # "positional" /\ log[k].slot = 0
    /\ (NArgs > 0 /\ Scanned(Cur) /\ (LongForm(args[Cur]) \/ ShortForm(args[Cur])))
           => positionals = prev.positionals
    /\ (/\ NArgs > 0 /\ Scanned(Cur)
        /\ LongForm(args[Cur])
        /\ LongNameOf(args[Cur]) \notin LongNames(prev.options))
           => UnmatchedFlagError(LongNameOf(args[Cur]))
    /\ (/\ NArgs > 0 /\ Scanned(Cur)
        /\ ~LongForm(args[Cur])
        /\ args[Cur] # config.option_terminator
        /\ ShortForm(args[Cur]))
           => LET cluster == Substr(args[Cur], Len(config.short_prefix))
                  u == FirstIn(cluster, AllChars \ ShortChars(prev.options))
                  v == FirstIn(cluster, ValueChars(prev.options))
              IN  (u > 0 /\ (v = 0 \/ u < v)) => UnmatchedFlagError(<<cluster[u]>>)

\* C4 witness: -42 fails as an unmatched flag although the unsigned-int
\* positional is still unmatched and keeps its default.
C4_Witness ==
    /\ NArgs > 0 /\ Scanned(Cur)
    /\ args[Cur] = <<"-", "4", "2">>
    /\ Len(positionals) > 0
    /\ positionals[1].type = "uint"
    /\ ~positionals[1].matched
    /\ positionals[1].value = UIntOf(17)
    /\ UnmatchedFlagError(<<"4">>)

\* The first positional of poss that is not matched, 0 if all are.
FirstFree(poss) ==
    LET free == {i \in 1..Len(poss) : ~poss[i].matched}
    IN  IF free = {} THEN 0 ELSE CHOOSE i \in free : \A j \in free : i <= j

\* The positions of args whose token the loop took as the terminator.
TerminatorAt == {k \in 1..NArgs : log[k].branch = "terminator"}

\* C5: the first token classified while scanning that equals the terminator
\* is consumed without being given to any declaration and terminates option
\* parsing for the rest of the call: every later token, a further terminator
\* and prefixed tokens included, takes the positional path in the terminated
\* state, and no option's matched flag or value changes any more.
C5_TerminatorIsFinal ==
    /\ pc # "setup" => (terminated <=> TerminatorAt # {})
    /\ \A k \in 1..NArgs :
           (Scanned(k) /\ args[k] = config.option_terminator)
               => /\ log[k].branch = "terminator"
                  /\ log[k].hits = <<>> /\ log[k].slot = 0 /\ log[k].ok
                  /\ \A j \in (k + 1)..NArgs :
                         /\ log[j].term
                         /\ log[j].branch = "positional"
                         /\ log[j].hits = <<>>
    /\ \A k \in TerminatorAt :
           /\ args[k] = config.option_terminator
           /\ \A j \in 1..(k - 1) :
                  /\ ~log[j].term
                  /\ Scanned(j) => args[j] # config.option_terminator
    /\ (NArgs > 0 /\ log[NArgs].term) => options = prev.options
    /\ (NArgs > 0 /\ log[NArgs].branch = "terminator")
           => options = prev.options /\ positionals = prev.positionals

\* C5 witness: after the terminator, -b and a second -- both went to
\* positionals, and the option b is still unmatched.
C5_Witness ==
    /\ NArgs = 3
    /\ args = <<config.option_terminator, <<"-", "b">>, config.option_terminator>>
    /\ log[1].branch = "terminator"
    /\ log[2].branch = "positional" /\ log[3].branch = "positional"
    /\ "b" \in ShortChars(options)
    /\ ~options[FirstShort(options, "b")].matched

\* What the claim C6 says of the tokens after position k: each took the
\* positional path and was resolved against no option; the latest went to
\* the first unmatched positional, or failed with the no-positional error.
PositionalAfter(k) ==
    /\ \A j \in (k + 1)..NArgs :
           log[j].branch = "positional" /\ log[j].hits = <<>>
    /\ NArgs > k
           => /\ options = prev.options
              /\ log[NArgs].slot = FirstFree(prev.positionals)
              /\ FirstFree(prev.positionals) = 0
                     => /\ pc = "done" /\ ret = FALSE
                        /\ error = <<"Passed in argument, but no positional arguments were ready to receive it: ",
                                     args[NArgs]>>

\* C6 as stated: in every input that contains a token equal to the
\* terminator, every token after the first such token is handed to the
\* next unmatched positional (or fails for want of one) and is never
\* resolved against the options.
C6_AfterAnyTerminatorToken ==
    \A k \in 1..NArgs :
        (/\ args[k] = config.option_terminator
         /\ \A j \in 1..(k - 1) : args[j] # config.option_terminator)
            => PositionalAfter(k)

\* C6 amended: the same for the first terminator token that the loop
\* classifies, that is, that is not taken as the separate value of the flag
\* before it.
C6_AfterTerminator ==
    \A k \in 1..NArgs :
        (/\ args[k] = config.option_terminator
         /\ log[k].branch # "value"
         /\ \A j \in 1..(k - 1) :
                args[j] = config.option_terminator => log[j].branch = "value")
            => PositionalAfter(k)

\* C6 witness: after the terminator, -b and --double went to the first and
\* the second positional, and no option was matched.
C6_Witness ==
    /\ NArgs = 3 /\ MaxArgs >= 3
    /\ args[1] = config.option_terminator
    /\ log[1].branch = "terminator"
    /\ args[2] = <<"-", "b">>
    /\ log[2].branch = "positional" /\ log[2].slot = 1 /\ log[2].ok
    /\ args[3] = <<"-", "-", "d", "o", "u", "b", "l", "e">>
    /\ log[3].branch = "positional" /\ log[3].slot = 2
    /\ Len(options) > 0
    /\ \A o \in 1..Len(options) : ~options[o].matched

\* C7: in a cluster the characters are resolved left to right; a character
\* naming an option without value marks it matched and the scan goes on; the
\* first character naming a value-bearing option takes the non-empty rest of
\* the cluster as its joined value.  For -abc, a declared as the flag
\* without value that the specification declares (an option of type bool)
\* and b value-bearing: a is matched without a value and b receives "c".
C7_ClusterExample ==
    (/\ NArgs > 0 /\ Scanned(Cur)
     /\ log[Cur].branch = "short"
     /\ Len(args[Cur]) > Len(config.short_prefix) + 2)
        => LET cluster == Substr(args[Cur], Len(config.short_prefix))
               a == cluster[1]
               b == cluster[2]
               c == SubSeq(cluster, 3, Len(cluster))
               oa == FirstShort(prev.options, a)
               ob == FirstShort(prev.options, b)
               p == ParseValue(prev.options[ob].type, c, prev.options[ob].value)
           IN  (/\ a \in ShortChars(prev.options)
                /\ b \in ShortChars(prev.options)
                /\ prev.options[oa].type = "bool"
                /\ prev.options[ob].type # "bool"
                /\ p.ok)
                   => /\ log[Cur].ok
                      /\ options[oa].matched
                      /\ options[oa].value = prev.options[oa].value
                      /\ options[ob].matched
                      /\ options[ob].value = p.value

\* The positions of args whose token took the positional path.
PositionalAt == {k \in 1..NArgs : log[k].branch = "positional"}

\* The rank of position k among the positional tokens.
RankOf(k) == Cardinality({j \in PositionalAt : j <= k})

\* C8: a token on the positional path is converted into the first
\* positional, in registration order, that is unmatched at that moment, and
\* that positional is marked matched on success; so on a fresh parser, as
\* long as no token failed, the i-th free-standing token is stored in the
\* i-th positional and no positional is assigned twice.
C8_PositionalOrder ==
    /\ (NArgs > 0 /\ log[NArgs].branch = "positional"
            /\ FirstFree(prev.positionals) > 0)
           => LET pos == FirstFree(prev.positionals)
                  p == ParseValue(prev.positionals[pos].type, args[NArgs],
                                  prev.positionals[pos].value)
              IN  /\ log[NArgs].slot = pos
                  /\ log[NArgs].ok = p.ok
                  /\ positionals[pos].value = p.value
                  /\ positionals[pos].matched = p.ok
                  /\ \A q \in 1..Len(positionals) :
                         q # pos => positionals[q] = prev.positionals[q]
    /\ (/\ pc # "setup"
        /\ \A q \in 1..Len(pre.positionals) : ~pre.positionals[q].matched
        /\ \A k \in 1..NArgs : log[k].ok)
           => /\ \A k \in PositionalAt :
                     LET i == RankOf(k)
                     IN  /\ log[k].slot = i
                         /\ i <= Len(positionals)
                         /\ positionals[i].matched
                         /\ positionals[i].value =
                                ParseValue(pre.positionals[i].type, args[k],
                                           pre.positionals[i].value).value
              /\ \A k \in PositionalAt : \A j \in PositionalAt :
                     log[k].slot = log[j].slot => k = j
              /\ \A q \in 1..Len(positionals) :
                     q > Cardinality(PositionalAt)
                         => positionals[q] = pre.positionals[q]

\* C8 witness: a successful parse in which 42 went to the first positional
\* and 1 to the second.
C8_Witness ==
    /\ pc = "done" /\ ret = TRUE
    /\ args = << <<"4", "2">>, <<"1">> >>
    /\ Len(positionals) = 2
    /\ positionals[1].type = "uint"
    /\ positionals[1].value = UIntOf(42) /\ positionals[1].matched
    /\ positionals[2].value = <<"1">> /\ positionals[2].matched

\* C9: a token on the positional path, when every registered positional is
\* already matched or none is registered, makes ParseArgs return false with
\* the no-positional error naming the token, and changes no declaration.
C9_NoPositionalReady ==
    (/\ NArgs > 0
     /\ log[NArgs].branch = "positional"
     /\ \A q \in 1..Len(prev.positionals) : prev.positionals[q].matched)
        => /\ pc = "done"
           /\ ret = FALSE
           /\ error = <<"Passed in argument, but no positional arguments were ready to receive it: ",
                        args[NArgs]>>
           /\ options = prev.options
           /\ positionals = prev.positionals

\* C9 witness: the only positional took 42, and the second 42 found none.
C9_Witness ==
    /\ args = << <<"4", "2">>, <<"4", "2">> >>
    /\ Len(positionals) = 1
    /\ positionals[1].matched
    /\ positionals[1].value = UIntOf(42)
    /\ pc = "done" /\ ret = FALSE
    /\ error = <<"Passed in argument, but no positional arguments were ready to receive it: ",
                 <<"4", "2">> >>

\* The options some token of the call has been resolved to.
Resolved == UNION {{log[k].hits[i] : i \in 1..Len(log[k].hits)} : k \in 1..NArgs}

DefaultOf(name) == (CHOOSE d \in OptionDecls : d.name = name).default

\* C10: an option that no token of the input resolves to keeps its value
\* and matched flag: the value is the configured default and matched is
\* false; the empty input parses successfully and changes no declaration.
C10_UnresolvedKeepDefault ==
    pc # "setup"
        => /\ Len(options) = Len(pre.options)
           /\ \A o \in 1..Len(options) :
                  o \notin Resolved
                      => /\ options[o] = pre.options[o]
                         /\ options[o].value = DefaultOf(options[o].name)
                         /\ ~options[o].matched
           /\ (pc = "done" /\ NArgs = 0)
                  => /\ ret = TRUE
                     /\ options = pre.options
                     /\ positionals = pre.positionals

\* C10 witness: --double=3.5 parsed successfully with a second option
\* registered that is untouched.
C10_Witness ==
    /\ pc = "done" /\ ret = TRUE
    /\ args = << <<"-", "-", "d", "o", "u", "b", "l", "e", "=", "3", ".", "5">> >>
    /\ Len(options) = 2
    /\ Resolved = {1}
    /\ options[1].value = <<35, 1>>
    /\ options[2].name = "BOOL"
    /\ options[2].value = FALSE /\ ~options[2].matched

\* The step is the entry of a call that follows an earlier call.
EntersAgain == pc = "done" /\ pc' = "loop"

\* The step is an iteration of the loop that took the positional branch.
PositionalStep ==
    /\ pc = "loop"
    /\ Len(args') > Len(args)
    /\ log'[Len(log')].branch = "positional"

\* C11: over any sequence of ParseArgs calls on one parser, no step of any
\* call, its entry included, turns a matched flag from true to false, and
\* the entry of a later call leaves every declaration and _error as the
\* earlier call left them; a positional that is matched keeps its value for
\* good, and a token on the positional path goes to the first positional
\* still unmatched, or fails with the no-positional error when none is left.
C11_StateAccumulates ==
    [][/\ Len(options') >= Len(options)
       /\ Len(positionals') >= Len(positionals)
       /\ \A o \in 1..Len(options) : options[o].matched => options'[o].matched
       /\ \A q \in 1..Len(positionals) :
              positionals[q].matched => positionals'[q] = positionals[q]
       /\ EntersAgain
              => /\ options' = options
                 /\ positionals' = positionals
                 /\ error' = error
       /\ PositionalStep
              => /\ log'[Len(log')].slot = FirstFree(positionals)
                 /\ FirstFree(positionals) = 0
                        => /\ pc' = "done" /\ ret' = FALSE
                           /\ positionals' = positionals
                           /\ error' = <<"Passed in argument, but no positional arguments were ready to receive it: ",
                                         args'[Len(args')]>>
      ]_vars

\* C11 witness: in a call entered with MyPos matched by an earlier call and
\* Text not, the token 1 went to Text and MyPos still holds 42.
C11_Witness ==
    /\ Len(positionals) = 2 /\ Len(pre.positionals) = 2
    /\ pre.positionals[1].matched /\ ~pre.positionals[2].matched
    /\ positionals[1].name = "MyPos" /\ positionals[1].value = UIntOf(42)
    /\ args = << <<"1">> >>
    /\ log[1].branch = "positional" /\ log[1].slot = 2 /\ log[1].ok
    /\ positionals[2].matched /\ positionals[2].value = <<"1">>

\* The messages a failure of the token at position k of args can leave in
\* _error: each names the token, its flag, or the positional it was due to.
ErrorsAbout(k) ==
    LET chunk == args[k]
        flags == IF log[k].branch = "long" THEN {LongNameOf(chunk)}
                 ELSE IF log[k].branch = "short"
                      THEN {<<chunk[i]>> : i \in (Len(config.short_prefix) + 1)..Len(chunk)}
                      ELSE {}
        due == FirstFree(prev.positionals)
    IN  {<<"Flag could not be matched: ", f>> : f \in flags}
        \cup {<<"Flag '", f, "' requires an argument but received none">> : f \in flags}
        \cup {<<"Flag '", f, "' received an invalid value">> : f \in flags}
        \cup {<<"Flag '", f, "' was passed a joined argument, but these are disallowed">> :
                  f \in flags}
        \cup {<<"Flag '", f, "' was passed a separate argument, but these are disallowed">> :
                  f \in flags}
        \cup (IF log[k].branch = "long"
              THEN {<<"Passed an argument into a non-argument flag: ", chunk>>}
              ELSE {})
        \cup (IF log[k].branch = "positional"
              THEN IF due = 0
                   THEN {<<"Passed in argument, but no positional arguments were ready to receive it: ",
                           chunk>>}
                   ELSE {<<"Positional '", prev.positionals[due].name,
                           "' received an invalid value">>}
              ELSE {})

\* C12: ParseArgs returns false at the first offending token: a token that
\* failed is the last one the call examined (with the value token it took),
\* the call has returned false, and _error holds a message about that token;
\* as long as no token failed, _error is what it was when the call began,
\* and a call that returned false has a failed token.
C12_FailFast ==
    /\ \A k \in 1..NArgs :
           ~log[k].ok
               => /\ k >= Cur
                  /\ pc = "done" /\ ret = FALSE
                  /\ error \in ErrorsAbout(Cur)
    /\ (pc # "setup" /\ \A k \in 1..NArgs : log[k].ok) => error = pre.error
    /\ (pc = "done" /\ ret = FALSE) => (NArgs > 0 /\ ~log[NArgs].ok)

\* C12 witness: 42 stored in MyPos, then -b failed as an unmatched flag; the
\* second positional, which a later token would have reached, is untouched.
C12_Witness ==
    /\ pc = "done" /\ ret = FALSE
    /\ args = << <<"4", "2">>, <<"-", "b">> >>
    /\ log[1].ok /\ ~log[2].ok
    /\ error = <<"Flag could not be matched: ", <<"b">> >>
    /\ Len(positionals) = 2
    /\ positionals[1].name = "MyPos" /\ positionals[2].name = "Text"
    /\ positionals[1].matched /\ positionals[1].value = UIntOf(42)
    /\ ~positionals[2].matched /\ positionals[2].value = <<>>

\* The latest token is a flag token whose flag, name, is registered on the
\* options at the positions dup of the registry, more than one of them.
SharedFlag(dup) ==
    /\ NArgs > 0
    /\ Cardinality(dup) > 1
    /\ \/ /\ log[Cur].branch = "long"
          /\ dup = {o \in 1..Len(prev.options) :
                        LongNameOf(args[Cur]) \in prev.options[o].long}
       \/ /\ log[Cur].branch = "short"
          /\ dup = {o \in 1..Len(prev.options) :
                        args[Cur][Len(config.short_prefix) + 1]
                            \in prev.options[o].short}

\* The least element of a non-empty set of positions.
Earliest(dup) == CHOOSE o \in dup : \A j \in dup : o <= j

\* C13: a token naming a short character or a long name that several
\* options are registered with resolves to the earliest-registered of them:
\* that option alone is marked matched and receives the value, and every
\* other option, the later ones with the same flag included, is unchanged.
C13_FirstRegisteredWins ==
    \A dup \in SUBSET (1..Len(prev.options)) :
        SharedFlag(dup)
            => LET o == Earliest(dup)
                   value == IF Took THEN args[NArgs]
                            ELSE IF log[Cur].branch = "long"
                                 THEN JoinedValue(Substr(args[Cur], Len(config.long_prefix)),
                                                  Len(LongNameOf(args[Cur])),
                                                  config.long_separator)
                                 ELSE SubSeq(args[Cur], Len(config.short_prefix) + 2,
                                             Len(args[Cur]))
               IN  /\ log[Cur].hits = <<o>>
                   /\ options[o].matched
                   /\ \A j \in 1..Len(options) : j # o => options[j] = prev.options[j]
                   /\ log[NArgs].ok
                          => options[o].value
                                 = ParseValue(prev.options[o].type, value,
                                              prev.options[o].value).value

\* C13 witness: DUBFLAG registered before STR, both with 'd'; -d 42 stored
\* 42 in DUBFLAG and left STR unmatched with its value.
C13_Witness ==
    /\ SharedFlag({1, 2})
    /\ options[1].name = "DUBFLAG" /\ options[2].name = "STR"
    /\ args = << <<"-", "d">>, <<"4", "2">> >>
    /\ options[1].matched /\ options[1].value = <<42, 0>>
    /\ ~options[2].matched /\ options[2].value = <<>>

\* The latest token resolved a value-bearing flag, and its value is attached
\* to it in the same token: after the separator of a long flag, or as the
\* rest of a short cluster.
JoinedFlagLast ==
    /\ NArgs > 0 /\ ~Took
    /\ log[Cur].branch \in {"long", "short"}
    /\ log[Cur].hits # <<>>
    /\ IsValueRoot(prev.options[log[Cur].hits[Len(log[Cur].hits)]])
    /\ ~BareFlagLast

\* The switch that allows the syntax the latest flag token used.
SyntaxAllowed(has) ==
    IF log[Cur].branch = "long"
    THEN IF has THEN config.joined_long ELSE config.separate_long
    ELSE IF has THEN config.joined_short ELSE config.separate_short

\* C14: a value-bearing flag whose value comes in a syntax the
\* configuration disallows makes ParseArgs return false with the disallowed
\* error for that syntax, joined or separate, and the option's stored value
\* is unchanged (the converter was not called); a flag without attached value
\* on the last token fails with the missing-argument error whether or not
\* separate values are allowed.
C14_DisallowedSyntax ==
    /\ (JoinedFlagLast /\ ~SyntaxAllowed(TRUE))
           => LET o == log[Cur].hits[Len(log[Cur].hits)]
              IN  /\ pc = "done" /\ ret = FALSE
                  /\ error = <<"Flag '", FlagName,
                               "' was passed a joined argument, but these are disallowed">>
                  /\ options[o].value = prev.options[o].value
    /\ (Took /\ ~SyntaxAllowed(FALSE))
           => LET o == log[Cur].hits[Len(log[Cur].hits)]
              IN  /\ pc = "done" /\ ret = FALSE
                  /\ error = <<"Flag '", FlagName,
                               "' was passed a separate argument, but these are disallowed">>
                  /\ options[o].value = prev.options[o].value
    /\ BareFlagLast
           => /\ pc = "done" /\ ret = FALSE
              /\ error = <<"Flag '", FlagName,
                           "' requires an argument but received none">>

\* C14 witness: with separate short values disallowed, -d 42 failed with the
\* separate-argument error and DUBFLAG still holds its default 25.
C14_Witness ==
    /\ ~config.separate_short
    /\ args = << <<"-", "d">>, <<"4", "2">> >>
    /\ pc = "done" /\ ret = FALSE
    /\ error = <<"Flag '", <<"d">>,
                 "' was passed a separate argument, but these are disallowed">>
    /\ Len(options) = 1
    /\ options[1].matched /\ options[1].value = <<25, 0>>

\* The latest iteration handed a raw value to ParseValue: the token itself
\* on the positional branch with a positional ready, the token it took for a
\* flag without attached value, or the part of the flag token behind the
\* separator or behind the flag's character.  (All four syntaxes allowed.)
ValueHanded ==
    /\ NArgs > 0
    /\ \/ log[Cur].branch = "positional" /\ log[Cur].slot > 0
       \/ Took
       \/ JoinedFlagLast

\* The declaration the value was for, as it was before the iteration.
HandedTo ==
    IF log[Cur].branch = "positional"
    THEN prev.positionals[log[Cur].slot]
    ELSE prev.options[log[Cur].hits[Len(log[Cur].hits)]]

\* The raw value.
HandedRaw ==
    IF log[Cur].branch = "positional" THEN args[Cur]
    ELSE IF Took THEN args[NArgs]
    ELSE IF log[Cur].branch = "long"
         THEN SubSeq(args[Cur],
                     Len(config.long_prefix) + Len(LongNameOf(args[Cur]))
                         + Len(config.long_separator) + 1,
                     Len(args[Cur]))
         ELSE SubSeq(args[Cur], Len(config.short_prefix) + Len(log[Cur].hits) + 1,
                     Len(args[Cur]))

\* The invalid-value error for the declaration the value was for.
InvalidValueError ==
    /\ pc = "done" /\ ret = FALSE
    /\ error = IF log[Cur].branch = "positional"
               THEN <<"Positional '", HandedTo.name, "' received an invalid value">>
               ELSE <<"Flag '", FlagName, "' received an invalid value">>

\* C15: whenever the extraction of a raw value fails or leaves a character
\* of it unread, the parse fails with the invalid-value error naming the
\* flag or the positional, and otherwise the token is accepted; 42a and
\* "42 " and the empty token are refused for an unsigned int.
C15_WholeTokenConsumed ==
    ValueHanded
        => LET x == Extract(HandedTo.type, HandedRaw, HandedTo.value)
           IN  /\ (x.fail \/ x.rest > 0) => InvalidValueError
               /\ log[NArgs].ok <=> ~(x.fail \/ x.rest > 0)
               /\ (/\ HandedTo.type = "uint"
                   /\ HandedRaw \in {<<"4", "2", "a">>, <<"4", "2", " ">>, <<>>})
                      => InvalidValueError

\* C15 witness: 42a for MyPos read 42, left the a, and failed the parse.
C15_Witness ==
    /\ ValueHanded
    /\ log[Cur].branch = "positional"
    /\ HandedTo.name = "MyPos"
    /\ HandedRaw = <<"4", "2", "a">>
    /\ Extract("uint", HandedRaw, HandedTo.value).rest = 1
    /\ InvalidValueError
    /\ positionals[log[Cur].slot].value = UIntOf(42)

\* C16: the string conversion is the identity and always succeeds: every raw
\* value handed to a string-typed option or positional, the empty token and
\* tokens containing whitespace included, is accepted, and the stored value
\* equals the token exactly.
C16_StringIdentity ==
    (ValueHanded /\ HandedTo.type = "string")
        => /\ log[NArgs].ok
           /\ HandedRaw = IF log[Cur].branch = "positional"
                          THEN positionals[log[Cur].slot].value
                          ELSE options[log[Cur].hits[Len(log[Cur].hits)]].value

\* C17: a value-bearing flag without attached value takes the very next
\* token as its value, whatever the token looks like: the token is converted
\* for the flag's option and nothing else happens to it: no positional and no
\* other option changes, and the scanning state is what it was before the
\* flag; only at the end of the input does such a flag go without a value.
C17_NextTokenIsValue ==
    /\ Took
           => LET o == log[Cur].hits[Len(log[Cur].hits)]
                  p == ParseValue(prev.options[o].type, args[NArgs],
                                  prev.options[o].value)
              IN  /\ log[Cur].branch \in {"long", "short"}
                  /\ options[o].value = p.value
                  /\ log[NArgs].ok <=> p.ok
                  /\ \A j \in 1..Len(options) :
                         j # o => options[j] = prev.options[j]
                  /\ positionals = prev.positionals
                  /\ log[NArgs].slot = 0
                  /\ terminated = log[Cur].term
                  /\ ~terminated
    /\ BareFlagLast => (pc = "done" /\ ret = FALSE)

\* C17 witness: --double -42 stored -42 in DUBFLAG, and the parse goes on.
C17_Witness ==
    /\ Took
    /\ args = << config.long_prefix \o Str_double, <<"-", "4", "2">> >>
    /\ pc = "loop"
    /\ options[log[Cur].hits[1]].name = "DUBFLAG"
    /\ options[log[Cur].hits[1]].value = <<-42, 0>>

\* C18: every option a flag token resolved is matched after the token,
\* also when the token then failed for want of a value or on an invalid
\* value; the positional a token was converted for is matched exactly when
\* the conversion succeeded, so after an invalid-value failure it is still
\* unmatched.
C18_MatchedTiming ==
    NArgs > 0
        => /\ \A i \in 1..Len(log[Cur].hits) : options[log[Cur].hits[i]].matched
           /\ (log[Cur].branch = "positional" /\ log[Cur].slot > 0)
                  => /\ ~prev.positionals[log[Cur].slot].matched
                     /\ positionals[log[Cur].slot].matched <=> log[Cur].ok

\* C18 witness: --double -b failed on the invalid value -b, and DUBFLAG,
\* unmatched before the token, is matched.
C18_Witness ==
    /\ Took
    /\ args[Cur] = <<"-", "-", "d", "o", "u", "b", "l", "e">>
    /\ args[NArgs] = <<"-", "b">>
    /\ pc = "done" /\ ret = FALSE
    /\ error = <<"Flag '", Str_double, "' received an invalid value">>
    /\ ~prev.options[log[Cur].hits[1]].matched
    /\ options[log[Cur].hits[1]].matched

\* The class of a token met while scanning, decided in the order terminator,
\* long flag, short cluster, positional.
ClassOf(t) ==
    IF t = config.option_terminator THEN "terminator"
    ELSE IF LongForm(t) THEN "long"
    ELSE IF ShortForm(t) THEN "short"
    ELSE "positional"

\* C19: every token classified while scanning takes exactly the branch of
\* its class, the classes tried in the order terminator, long flag, short
\* cluster, positional: a token with the long prefix and longer than it is a
\* long flag, never a short cluster, and a token that is no longer than the
\* prefix it begins with, the terminator apart, is a positional.
C19_ClassificationOrder ==
    \A k \in 1..NArgs :
        Scanned(k)
            => /\ log[k].branch = ClassOf(args[k])
               /\ LongForm(args[k]) => log[k].branch = "long"
               /\ (/\ args[k] # config.option_terminator
                   /\ Len(args[k]) <= Len(config.short_prefix))
                      => log[k].branch = "positional"

\* C19 witness: the token - alone, met while scanning, was stored in the
\* string positional, and --double before it took the long branch.
C19_Witness ==
    /\ NArgs > 0 /\ ~Took
    /\ Scanned(Cur)
    /\ args[Cur] = config.short_prefix
    /\ log[Cur].branch = "positional" /\ log[Cur].ok
    /\ positionals[log[Cur].slot].value = config.short_prefix
    /\ \E k \in 1..NArgs :
           /\ Scanned(k)
           /\ ShortForm(args[k]) /\ LongForm(args[k])
           /\ log[k].branch = "long"

\* The classes a consumed token can have.
Consumed == {"terminator", "long", "short", "value", "positional"}

\* C20: ParseArgs is a single forward pass: every iteration that goes on
\* moves the cursor forward, by the token it classified and the value token
\* it took if any, over tokens that stay as they were read; nothing but an
\* iteration moves it; every token read has one class; and when the call
\* returns true every token read was consumed without failure, as the
\* terminator, a flag token, a flag's separate value or a positional value.
C20_SingleForwardPass ==
    [][/\ (pc = "loop" /\ pc' = "loop")
              => /\ Len(args') \in {Len(args) + 1, Len(args) + 2}
                 /\ Len(args') = Len(args) + 2 <=> log'[Len(log')].branch = "value"
       /\ pc = "loop"
              => /\ Len(args') >= Len(args)
                 /\ SubSeq(args', 1, Len(args)) = args
                 /\ SubSeq(log', 1, Len(log)) = log
       /\ Len(log') = Len(args')
       /\ \A k \in 1..Len(log') : log'[k].branch \in Consumed
       /\ (pc' = "done" /\ ret')
              => /\ pc = "loop" /\ args' = args
                 /\ \A k \in 1..Len(log') : log'[k].ok
      ]_vars

\* C20 witness: --double 42 1 parsed to the end and returned true, the three
\* tokens consumed as a flag, its value and a positional value.
C20_Witness ==
    /\ pc = "done" /\ ret
    /\ args = << config.long_prefix \o Str_double, <<"4", "2">>, <<"1">> >>
    /\ log[1].branch = "long" /\ log[2].branch = "value"
    /\ log[3].branch = "positional"
    /\ \A k \in 1..3 : log[k].ok

\* C21: _error is written only on a failing path: a step changes it only
\* if it is the iteration at which ParseArgs returns false; a call that
\* returns true leaves it as it was when the call began, the message of an
\* earlier failed call included; and it is non-empty only if the call
\* began with a message or a token of the call failed.
C21_ErrorOnlyOnFailure ==
    [][/\ error' # error
              => /\ pc = "loop" /\ pc' = "done" /\ ret' = FALSE
                 /\ ~log'[Len(log')].ok
                 /\ error' # <<>>
       /\ (pc' = "done" /\ ret') => error' = pre'.error
       /\ error' # <<>>
              => \/ pre'.error # <<>>
                 \/ \E k \in 1..Len(log') : ~log'[k].ok
      ]_vars

\* C21 witness: a call that began with the message of an earlier failed
\* call read a token, returned true, and the message is still there.
C21_Witness ==
    /\ pc = "done" /\ ret
    /\ NArgs > 0
    /\ pre.error # <<>>
    /\ error = pre.error

\* The declaration the latest value was for, as it is after the iteration.
HandedNow ==
    IF log[Cur].branch = "positional"
    THEN positionals[log[Cur].slot]
    ELSE options[log[Cur].hits[Len(log[Cur].hits)]]

\* C22: a rejected conversion is not rolled back: after a token failed with
\* the invalid-value error, the declaration holds what the extraction
\* stored, for 42a handed to an unsigned int the 42 that was read, and not
\* the 17 it held before; a positional in this situation is still unmatched.
C22_NoRollback ==
    (ValueHanded /\ ~log[NArgs].ok)
        => /\ InvalidValueError
           /\ HandedNow.value
                  = Extract(HandedTo.type, HandedRaw, HandedTo.value).value
           /\ (HandedTo.type = "uint" /\ HandedRaw = <<"4", "2", "a">>)
                  => HandedNow.value = UIntOf(42)
           /\ log[Cur].branch = "positional" => ~HandedNow.matched

\* C22 witness: MyPos held its default 17; 42a failed, MyPos now holds 42
\* and is unmatched.
C22_Witness ==
    /\ ValueHanded /\ ~log[NArgs].ok
    /\ log[Cur].branch = "positional"
    /\ HandedTo.name = "MyPos"
    /\ HandedTo.value = UIntOf(17)
    /\ HandedRaw = <<"4", "2", "a">>
    /\ HandedNow.value = UIntOf(42)
    /\ ~HandedNow.matched
    /\ pc = "done" /\ ret = FALSE

====
